---------------------------- MODULE Spec2Model ----------------------------
(* Stock price behavior analyzing tool (price_behavior.py).                  *)
(*                                                                           *)
(* One object of class PriceAnalysis (QuotesData <- PriceData <-             *)
(* PriceAnalysis) is modelled together with one call on it.  The variables   *)
(* are the object's attributes, the quote file the call reads, and the       *)
(* position of the call (pc).  A call runs as a chain of steps in the order  *)
(* of the source: parameter checks, read_quotes, the rest of                 *)
(* adjust_trading_time, the rest of create_adjusted_quotes, the rest of      *)
(* create_price_arrays, and the statistics stage of the analysis method.     *)
(*                                                                           *)
(* Python strings that the code slices, measures or parses (Time, AdjTime,   *)
(* intra_time, ticker) are sequences of one-character strings.  Prices are   *)
(* integers (hundredths); High, Low and Volume are never read by the code    *)
(* and are left out of the rows.  Row labels are the row positions 1..n      *)
(* (pandas' default RangeIndex, shifted by one).                             *)
EXTENDS Integers, Sequences, FiniteSets, TLC

VARIABLES
    ticker,                 \* self.ticker
    boundary,               \* self.boundary
    intra_time,             \* self.intra_time: [type |-> "bool" | "str", val |-> ...]
    op,                     \* the method that was called on the object
    pc,                     \* the next piece of code the call executes
    outcome,                \* "running", "returned", or the exception that ended the call
    quotes_file,            \* content of IntraQuotes/<ticker>.txt as read (<<>>: not read)
    raw_intra_quotes_df,    \* self.raw_intra_quotes_df
    adj_time,               \* self.adj_time
    intra_quotes_df,        \* self.intra_quotes_df
    open_price,             \* self.open_price
    prior_close_price,      \* self.prior_close_price
    close_price,            \* self.close_price
    intra_price,            \* self.intra_price
    intra_open,             \* self.intra_open
    diff,                   \* the difference series handed to calc_statistics
    statistics_data         \* the value the call returns

vars == <<ticker, boundary, intra_time, op, pc, outcome, quotes_file,
          raw_intra_quotes_df, adj_time, intra_quotes_df, open_price,
          prior_close_price, close_price, intra_price, intra_open, diff,
          statistics_data>>

-----------------------------------------------------------------------------
(* Bounds of the model *)

\* trading days in a quote file read by PriceData.create_price_arrays
MaxDays == 3
\* trading days in a quote file read by the four analysis methods
FacadeDays == 2
\* longest intra_time string handed to check_intra_parameters on its own
MaxCutoffLen == 5
\* observations in a difference series handed to calc_statistics on its own
MaxObs == 3
\* largest absolute price difference in such a series
MaxAbs == 2
\* largest boundary handed to calc_statistics on its own
MaxBoundary == 2

-----------------------------------------------------------------------------
(* Python values *)

None == [kind |-> "None"]
PyBool(b) == [type |-> "bool", val |-> b]
PyStr(s) == [type |-> "str", val |-> s]

Digits == {"0", "1", "2", "3", "4", "5", "6", "7", "8", "9"}

DigitVal(c) ==
    CASE c = "0" -> 0 [] c = "1" -> 1 [] c = "2" -> 2 [] c = "3" -> 3
      [] c = "4" -> 4 [] c = "5" -> 5 [] c = "6" -> 6 [] c = "7" -> 7
      [] c = "8" -> 8 [] c = "9" -> 9

DigitChar(n) ==
    CASE n = 0 -> "0" [] n = 1 -> "1" [] n = 2 -> "2" [] n = 3 -> "3"
      [] n = 4 -> "4" [] n = 5 -> "5" [] n = 6 -> "6" [] n = 7 -> "7"
      [] n = 8 -> "8" [] n = 9 -> "9"

\* int(s) succeeds on the strings of the model exactly when s is a non-empty
\* run of digits; otherwise it raises ValueError
IntParses(s) == Len(s) > 0 /\ \A i \in 1..Len(s) : s[i] \in Digits

RECURSIVE IntOf(_)
IntOf(s) ==
    IF s = <<>> THEN 0
    ELSE 10 * IntOf(SubSeq(s, 1, Len(s) - 1)) + DigitVal(s[Len(s)])

\* str(n) for n >= 0: decimal digits, no padding
RECURSIVE StrOf(_)
StrOf(n) ==
    IF n < 10 THEN <<DigitChar(n)>>
    ELSE Append(StrOf(n \div 10), DigitChar(n % 10))

\* s[a:b] with 0 <= a <= b (Python slice, clipped to the string)
Slice(s, a, b) ==
    LET hi == IF b < Len(s) THEN b ELSE Len(s)
    IN  IF a >= hi THEN <<>> ELSE SubSeq(s, a + 1, hi)

\* s[1:]
DropFirst(s) == IF s = <<>> THEN <<>> ELSE Tail(s)

\* a test that takes every value, False included, for a given intra_time
TruthyAlways(x) == x.type \in {"bool", "str"}

\* bool(x) for a bool or a str
Truthy(x) == IF x.type = "bool" THEN x.val ELSE Len(x.val) > 0

LowerCase == <<"a", "c", "d", "f", "j", "m", "o", "r", "s", "t", "u", "w", "x", "y">>
UpperCase == <<"A", "C", "D", "F", "J", "M", "O", "R", "S", "T", "U", "W", "X", "Y">>

\* str.upper
Upper(s) ==
    [i \in 1..Len(s) |->
        IF \E k \in 1..Len(LowerCase) : LowerCase[k] = s[i]
        THEN UpperCase[CHOOSE k \in 1..Len(LowerCase) : LowerCase[k] = s[i]]
        ELSE s[i]]


-----------------------------------------------------------------------------
(* The quote files (input of read_quotes) *)

TwoDigits(n) == <<DigitChar(n \div 10), DigitChar(n % 10)>>
Clock(h, m) == TwoDigits(h) \o <<":">> \o TwoDigits(m) \o <<":", "0", "0">>

\* The times of day at which a trading day of a file may have a bar, in
\* chronological order: the anomalous session start, a bar before the regular
\* session start, the regular session start, a late bar.
TimeGrid == <<Clock(14, 30), Clock(15, 15), Clock(15, 30), Clock(20, 20)>>

\* The bar of day d at TimeGrid[k]; every bar of a file has its own Open and
\* Close, so a price found in an array names the bar it was taken from.
Bar(d, k) ==
    [Date |-> d, Time |-> TimeGrid[k],
     Open |-> 100 * d + 10 * k, Close |-> 100 * d + 10 * k + 5]

DayShapes == (SUBSET (1..Len(TimeGrid))) \ {{}}

InShape(S, k) == k \in S

DayBars(d, S) ==
    LET sel == SelectSeq([k \in 1..Len(TimeGrid) |-> k], LAMBDA k : InShape(S, k))
    IN  [i \in 1..Len(sel) |-> Bar(d, sel[i])]

\* The file of n trading days in chronological order, day d with the bars
\* shapes[d] (a non-empty set), (Date, Time) unique
RECURSIVE FileOf(_, _)
FileOf(shapes, n) ==
    IF n = 0 THEN <<>> ELSE FileOf(shapes, n - 1) \o DayBars(n, shapes[n])


-----------------------------------------------------------------------------
(* QuotesData *)

RowIndex(df) == [i \in 1..Len(df) |-> i]

\* re.sub(pattern, repl, string, count) for a pattern of literal characters:
\* the leftmost non-overlapping occurrences are replaced, at most count of
\* them (count = 0: all of them)
RECURSIVE ReSub(_, _, _, _)
ReSub(pattern, repl, string, count) ==
    IF Len(string) < Len(pattern) THEN string
    ELSE IF SubSeq(string, 1, Len(pattern)) = pattern
         THEN LET rest == SubSeq(string, Len(pattern) + 1, Len(string))
              IN  repl \o (IF count = 1 THEN rest
                           ELSE ReSub(pattern, repl, rest,
                                      IF count = 0 THEN 0 ELSE count - 1))
         ELSE <<string[1]>> \o ReSub(pattern, repl, Tail(string), count)

\* the substitution without its count argument
AdjustTimeEveryMatch(k) ==
    ReSub(Slice(k, 0, 2), StrOf(IntOf(Slice(k, 0, 2)) + 1), k, 0)

\* re.sub(k[:2], str(int(k[:2])+1), k, 1)
AdjustTime(k) ==
    ReSub(Slice(k, 0, 2), StrOf(IntOf(Slice(k, 0, 2)) + 1), k, 1)

\* Dates of the rows whose Time is "14:30:00"
DifferentTimeDays(df) ==
    { df[i].Date : i \in { j \in 1..Len(df) : df[j].Time = Clock(14, 30) } }

\* read_quotes: the file of the ticker, any file of 1..maxDays trading days,
\* becomes raw_intra_quotes_df
read_quotes(maxDays) ==
    /\ pc = "read_quotes"
    /\ \E n \in 1..maxDays : \E shapes \in [1..n -> DayShapes] :
          /\ quotes_file' = FileOf(shapes, n)
          /\ raw_intra_quotes_df' = FileOf(shapes, n)
    /\ pc' = "adjust_trading_time"
    /\ UNCHANGED <<ticker, boundary, intra_time, op, outcome, adj_time,
                   intra_quotes_df, open_price, prior_close_price, close_price,
                   intra_price, intra_open, diff, statistics_data>>

\* adjust_trading_time after its read_quotes(): the TZ_Bool and AdjTime
\* columns are added and self.adj_time is computed
adjust_trading_time ==
    /\ pc = "adjust_trading_time"
    /\ raw_intra_quotes_df' =
          [i \in 1..Len(raw_intra_quotes_df) |->
              [Date |-> raw_intra_quotes_df[i].Date,
               Time |-> raw_intra_quotes_df[i].Time,
               Open |-> raw_intra_quotes_df[i].Open,
               Close |-> raw_intra_quotes_df[i].Close,
               TZ_Bool |-> raw_intra_quotes_df[i].Date
                               \in DifferentTimeDays(raw_intra_quotes_df),
               AdjTime |-> raw_intra_quotes_df[i].Time]]
    /\ adj_time' =
          [i \in 1..Len(raw_intra_quotes_df') |->
              IF raw_intra_quotes_df'[i].TZ_Bool
              THEN AdjustTime(raw_intra_quotes_df'[i].AdjTime)
              ELSE raw_intra_quotes_df'[i].AdjTime]
    /\ pc' = "create_adjusted_quotes"
    /\ UNCHANGED <<ticker, boundary, intra_time, op, outcome, quotes_file,
                   intra_quotes_df, open_price, prior_close_price, close_price,
                   intra_price, intra_open, diff, statistics_data>>

\* create_adjusted_quotes after its adjust_trading_time(): AdjTime takes
\* adj_time, and intra_quotes_df is the frame without TZ_Bool
create_adjusted_quotes ==
    /\ pc = "create_adjusted_quotes"
    /\ raw_intra_quotes_df' =
          [i \in 1..Len(raw_intra_quotes_df) |->
              [raw_intra_quotes_df[i] EXCEPT !.AdjTime = adj_time[i]]]
    /\ intra_quotes_df' =
          [i \in 1..Len(raw_intra_quotes_df') |->
              [Date |-> raw_intra_quotes_df'[i].Date,
               Time |-> raw_intra_quotes_df'[i].Time,
               Open |-> raw_intra_quotes_df'[i].Open,
               Close |-> raw_intra_quotes_df'[i].Close,
               AdjTime |-> raw_intra_quotes_df'[i].AdjTime]]
    /\ pc' = "create_price_arrays"
    /\ UNCHANGED <<ticker, boundary, intra_time, op, outcome, quotes_file,
                   adj_time, open_price, prior_close_price, close_price,
                   intra_price, intra_open, diff, statistics_data>>

-----------------------------------------------------------------------------
(* PriceData *)

PRIOR_DAY == 1
OPEN_TIME == Clock(15, 30)

AdjTimeIs(df, t, i) == df[i].AdjTime = t

\* the index of df[df.AdjTime == t]
WhereAdjTime(df, t) == SelectSeq(RowIndex(df), LAMBDA i : AdjTimeIs(df, t, i))

\* open_price_series.index
OpenPriceSeriesIndex(df) == WhereAdjTime(df, OPEN_TIME)

\* np.array(open_price_series[1:])
OpenPrice(df) ==
    LET idx == DropFirst(OpenPriceSeriesIndex(df))
    IN  [j \in 1..Len(idx) |-> df[idx[j]].Open]

\* np.array(intra_quotes_df.loc[(open_price_series.index - PRIOR_DAY)[1:]].Close)
PriorClosePrice(df) ==
    LET osi == OpenPriceSeriesIndex(df)
        lbl == DropFirst([j \in 1..Len(osi) |-> osi[j] - PRIOR_DAY])
    IN  [j \in 1..Len(lbl) |-> df[lbl[j]].Close]

\* np.roll(a, shift)
NpRoll(a, shift) ==
    LET n == Len(a)
    IN  [i \in 1..n |-> a[((i - 1 - shift) % n) + 1]]

\* the roll without the replacement of the last entry
ClosePriceRollOnly(prior, df) == NpRoll(prior, -1)

\* close_price = np.roll(prior_close_price, -1);
\* close_price[-1] = intra_quotes_df.Close.iloc[-1]      (for a non-empty array)
ClosePrice(prior, df) ==
    [NpRoll(prior, -1) EXCEPT ![Len(prior)] = df[Len(df)].Close]

\* ":".join([intra_time[:2], intra_time[2:4], "00"])
ModIntraTime(t) == Slice(t, 0, 2) \o <<":">> \o Slice(t, 2, 4) \o <<":", "0", "0">>

\* np.array(intra_quotes_df.Close[intra_quotes_df.AdjTime == mod_intra_time])
IntraPrice(df, mod) ==
    LET idx == WhereAdjTime(df, mod)
    IN  [j \in 1..Len(idx) |-> df[idx[j]].Close]

OpenOfIntraDate(df, dates, i) == df[i].AdjTime = OPEN_TIME /\ df[i].Date \in dates

\* np.array(intra_quotes_df.Open[(AdjTime == OPEN_TIME) & Date.isin(intra_date_series)])
IntraOpen(df, mod) ==
    LET cut == WhereAdjTime(df, mod)
        intra_date_series == { df[cut[j]].Date : j \in 1..Len(cut) }
        idx == SelectSeq(RowIndex(df),
                         LAMBDA i : OpenOfIntraDate(df, intra_date_series, i))
    IN  [j \in 1..Len(idx) |-> df[idx[j]].Open]

\* create_price_arrays after its create_adjusted_quotes().  With no eligible
\* day the item assignment close_price[-1] = ... raises IndexError on the
\* empty array, after the three arrays have been assigned.
create_price_arrays ==
    /\ pc = "create_price_arrays"
    /\ LET df == intra_quotes_df
           prior == PriorClosePrice(df)
       IN  /\ open_price' = OpenPrice(df)
           /\ prior_close_price' = prior
           /\ IF Len(prior) = 0
              THEN /\ close_price' = NpRoll(prior, -1)
                   /\ outcome' = "IndexError"
                   /\ pc' = "done"
                   /\ UNCHANGED <<intra_price, intra_open>>
              ELSE /\ close_price' = ClosePrice(prior, df)
                   /\ IF intra_time.type = "str"
                      THEN /\ intra_price' = IntraPrice(df, ModIntraTime(intra_time.val))
                           /\ intra_open' = IntraOpen(df, ModIntraTime(intra_time.val))
                      ELSE UNCHANGED <<intra_price, intra_open>>
                   /\ IF op = "create_price_arrays"
                      THEN pc' = "done" /\ outcome' = "returned"
                      ELSE pc' = "statistics" /\ UNCHANGED outcome
    /\ UNCHANGED <<ticker, boundary, intra_time, op, quotes_file,
                   raw_intra_quotes_df, adj_time, intra_quotes_df, diff,
                   statistics_data>>

-----------------------------------------------------------------------------
(* PriceAnalysis *)

Str2(a, b) == <<a, b>>
Str3(a, b, c) == <<a, b, c>>
Str4(a, b, c, d) == <<a, b, c, d>>

valid_tickers ==
    { Str4("A", "M", "A", "T"), <<"C">>, Str2("J", "D"), Str4("M", "S", "F", "T"),
      Str2("M", "U"), Str4("T", "W", "T", "R") }

\* the boundary test with a strict comparison
check_daily_parameters_strict(t, b) ==
    IF Upper(t) \notin valid_tickers THEN "SystemExit"
    ELSE IF b < 0 THEN "SystemExit"
    ELSE "returned"

\* check_daily_parameters: how the call ends (InvalidTickersError and
\* InvalidBoundaryError are both caught and answered with sys.exit())
check_daily_parameters(t, b) ==
    IF Upper(t) \notin valid_tickers THEN "SystemExit"
    ELSE IF b <= 0 THEN "SystemExit"
    ELSE "returned"

\* check_intra_parameters: how the call ends (InvalidIntratimeError and the
\* ValueError of int() are both caught and answered with sys.exit())
check_intra_parameters(it) ==
    IF it.type = "bool"
    THEN IF it.val THEN "SystemExit" ELSE "returned"
    ELSE IF Len(it.val) # 4 THEN "SystemExit"
    ELSE IF ~IntParses(it.val) THEN "SystemExit"
    ELSE IF ~(1530 <= IntOf(it.val) /\ IntOf(it.val) <= 2155) THEN "SystemExit"
    ELSE IF it.val[Len(it.val)] \notin {"0", "5"} THEN "SystemExit"
    ELSE "returned"

RECURSIVE SeqSum(_)
SeqSum(a) == IF a = <<>> THEN 0 ELSE a[1] + SeqSum(Tail(a))

SeqMin(a) == CHOOSE v \in { a[i] : i \in 1..Len(a) } : \A i \in 1..Len(a) : v <= a[i]
SeqMax(a) == CHOOSE v \in { a[i] : i \in 1..Len(a) } : \A i \in 1..Len(a) : v >= a[i]

Above(v, b) == v > b
Below(v, b) == v < b

\* len(data[data > b])
CountAbove(data, b) == Len(SelectSeq(data, LAMBDA v : Above(v, b)))
\* len(data[data < b])
CountBelow(data, b) == Len(SelectSeq(data, LAMBDA v : Below(v, b)))

\* the count with the values equal to a boundary left out
ObsBtwDataOpen(data, b) ==
    Len(data) - CountAbove(data, b - 1) - CountBelow(data, 1 - b)

\* len(data) - len(data[data > boundary]) - len(data[data < -boundary])
ObsBtwData(data, b) ==
    Len(data) - CountAbove(data, b) - CountBelow(data, 0 - b)

\* a / b rounded to the nearest integer, ties to even (b > 0)
RoundDiv(a, b) ==
    LET q == a \div b
        r == a - q * b
    IN  IF 2 * r < b THEN q
        ELSE IF 2 * r > b THEN q + 1
        ELSE IF q % 2 = 0 THEN q ELSE q + 1

\* calc_statistics(data, boundary): the exception it raises or the record it
\* returns.  Prices are hundredths, so min and max are already rounded to two
\* decimals; the percentage is in tenths of a percent and the mean in
\* thousandths; the sample standard deviation is given by its variance
\* as a fraction, and is nan for fewer than two observations.
calc_statistics(data, b) ==
    LET n == Len(data)
        obs_btw_data == ObsBtwData(data, b)
        sum == SeqSum(data)
        sumsq == SeqSum([i \in 1..n |-> data[i] * data[i]])
    IN  IF n = 0
        THEN [outcome |-> "ZeroDivisionError", value |-> None]
        ELSE [outcome |-> "returned",
              value |-> [kind |-> "dict",
                         min_price_change |-> SeqMin(data),
                         max_price_change |-> SeqMax(data),
                         all_obs_number |-> n,
                         obs_btw_boundaries |-> obs_btw_data,
                         obs_btw_boundaries_perc |-> RoundDiv(1000 * obs_btw_data, n),
                         mean |-> RoundDiv(10 * sum, n),
                         std |-> [nan |-> n < 2,
                                  var_num |-> n * sumsq - sum * sum,
                                  var_den |-> n * (n - 1)]]]

\* a - b for two one-dimensional numpy arrays (broadcasting included)
NpSubtract(a, b) ==
    IF Len(a) = Len(b)
    THEN [ok |-> TRUE, val |-> [i \in 1..Len(a) |-> a[i] - b[i]]]
    ELSE IF Len(b) = 1
    THEN [ok |-> TRUE, val |-> [i \in 1..Len(a) |-> a[i] - b[1]]]
    ELSE IF Len(a) = 1
    THEN [ok |-> TRUE, val |-> [i \in 1..Len(b) |-> a[1] - b[i]]]
    ELSE [ok |-> FALSE, val |-> <<>>]

DailyOps == {"open_priorclose_analysis", "close_open_analysis",
             "close_priorclose_analysis"}

\* the start of a daily analysis: check_daily_parameters(), then the call
\* goes on to create_price_arrays()
DailyAnalysis(name) ==
    /\ pc = "new"
    /\ op' = name
    /\ IF check_daily_parameters(ticker, boundary) = "SystemExit"
       THEN pc' = "done" /\ outcome' = "SystemExit"
       ELSE pc' = "read_quotes" /\ UNCHANGED outcome
    /\ UNCHANGED <<ticker, boundary, intra_time, quotes_file,
                   raw_intra_quotes_df, adj_time, intra_quotes_df, open_price,
                   prior_close_price, close_price, intra_price, intra_open,
                   diff, statistics_data>>

open_priorclose_analysis == DailyAnalysis("open_priorclose_analysis")

close_open_analysis == DailyAnalysis("close_open_analysis")

close_priorclose_analysis == DailyAnalysis("close_priorclose_analysis")

\* the start of intraprice_open_analysis: without an intra_time it prints and
\* returns None; with one, check_daily_parameters(), check_intra_parameters(),
\* then the call goes on to create_price_arrays()
intraprice_open_analysis ==
    /\ pc = "new"
    /\ op' = "intraprice_open_analysis"
    /\ IF Truthy(intra_time)
       THEN IF \/ check_daily_parameters(ticker, boundary) = "SystemExit"
               \/ check_intra_parameters(intra_time) = "SystemExit"
            THEN pc' = "done" /\ outcome' = "SystemExit"
            ELSE pc' = "read_quotes" /\ UNCHANGED outcome
       ELSE pc' = "done" /\ outcome' = "returned"
    /\ UNCHANGED <<ticker, boundary, intra_time, quotes_file,
                   raw_intra_quotes_df, adj_time, intra_quotes_df, open_price,
                   prior_close_price, close_price, intra_price, intra_open,
                   diff, statistics_data>>

\* the difference an analysis method computes from the price arrays
Difference ==
    CASE op = "open_priorclose_analysis" -> NpSubtract(open_price, prior_close_price)
      [] op = "close_open_analysis" -> NpSubtract(close_price, open_price)
      [] op = "close_priorclose_analysis" -> NpSubtract(close_price, prior_close_price)
      [] op = "intraprice_open_analysis" -> NpSubtract(intra_price, intra_open)

\* an analysis method after its create_price_arrays(): the difference,
\* calc_statistics, display_result (which changes nothing of the object), return
analysis_statistics ==
    /\ pc = "statistics"
    /\ pc' = "done"
    /\ IF op = "intraprice_open_analysis" /\ intra_time.type # "str"
       THEN outcome' = "AttributeError" /\ UNCHANGED <<diff, statistics_data>>
       ELSE IF ~Difference.ok
       THEN outcome' = "ValueError" /\ UNCHANGED <<diff, statistics_data>>
       ELSE LET r == calc_statistics(Difference.val, boundary)
            IN  /\ diff' = Difference.val
                /\ outcome' = r.outcome
                /\ statistics_data' = r.value
    /\ UNCHANGED <<ticker, boundary, intra_time, op, quotes_file,
                   raw_intra_quotes_df, adj_time, intra_quotes_df, open_price,
                   prior_close_price, close_price, intra_price, intra_open>>

\* check_intra_parameters called on its own
check_intra_parameters_call ==
    /\ pc = "check_intra_parameters"
    /\ pc' = "done"
    /\ outcome' = check_intra_parameters(intra_time)
    /\ UNCHANGED <<ticker, boundary, intra_time, op, quotes_file,
                   raw_intra_quotes_df, adj_time, intra_quotes_df, open_price,
                   prior_close_price, close_price, intra_price, intra_open,
                   diff, statistics_data>>

\* calc_statistics called on its own
calc_statistics_call ==
    /\ pc = "calc_statistics"
    /\ pc' = "done"
    /\ outcome' = calc_statistics(diff, boundary).outcome
    /\ statistics_data' = calc_statistics(diff, boundary).value
    /\ UNCHANGED <<ticker, boundary, intra_time, op, quotes_file,
                   raw_intra_quotes_df, adj_time, intra_quotes_df, open_price,
                   prior_close_price, close_price, intra_price, intra_open,
                   diff>>

-----------------------------------------------------------------------------
(* Specifications *)

Tickers == { Str2("m", "u"), Str3("O", "X", "Y") }
Boundaries == {-50, 0, 50}
IntraTimes ==
    { PyBool(FALSE), PyBool(TRUE), PyStr(<<>>), PyStr(Str4("2", "0", "2", "0")),
      PyStr(Str4("2", "2", "0", "0")), PyStr(Str4("1", "5", "6", "0")) }

Fresh ==
    /\ outcome = "running"
    /\ quotes_file = <<>>
    /\ raw_intra_quotes_df = <<>>
    /\ adj_time = <<>>
    /\ intra_quotes_df = <<>>
    /\ open_price = <<>>
    /\ prior_close_price = <<>>
    /\ close_price = <<>>
    /\ intra_price = <<>>
    /\ intra_open = <<>>
    /\ statistics_data = None

\* PriceAnalysis(ticker, boundary, intra_time) and one of its analysis methods
Init ==
    /\ ticker \in Tickers
    /\ boundary \in Boundaries
    /\ intra_time \in IntraTimes
    /\ op = "none"
    /\ pc = "new"
    /\ diff = <<>>
    /\ Fresh

Next ==
    \/ open_priorclose_analysis
    \/ close_open_analysis
    \/ close_priorclose_analysis
    \/ intraprice_open_analysis
    \/ read_quotes(FacadeDays)
    \/ adjust_trading_time
    \/ create_adjusted_quotes
    \/ create_price_arrays
    \/ analysis_statistics

Spec == Init /\ [][Next]_vars

\* PriceData(ticker, intra_time).create_price_arrays()
ArrayIntraTimes == { PyStr(Str4("2", "0", "2", "0")) }

InitArrays ==
    /\ ticker = Str2("M", "U")
    /\ boundary = 50
    /\ intra_time \in ArrayIntraTimes
    /\ op = "create_price_arrays"
    /\ pc = "read_quotes"
    /\ diff = <<>>
    /\ Fresh

NextArrays ==
    \/ read_quotes(MaxDays)
    \/ adjust_trading_time
    \/ create_adjusted_quotes
    \/ create_price_arrays

SpecArrays == InitArrays /\ [][NextArrays]_vars

\* check_intra_parameters() on PriceAnalysis("MU", 0.5, intra_time)
CutoffAlphabet == {"0", "1", "2", "3", "5", "6", "9", "x"}

CutoffStrings == UNION { [1..n -> CutoffAlphabet] : n \in 0..MaxCutoffLen }

InitIntra ==
    /\ ticker = Str2("M", "U")
    /\ boundary = 50
    /\ \/ intra_time \in { PyBool(FALSE), PyBool(TRUE) }
       \/ \E s \in CutoffStrings : intra_time = PyStr(s)
    /\ op = "check_intra_parameters"
    /\ pc = "check_intra_parameters"
    /\ diff = <<>>
    /\ Fresh

NextIntra == check_intra_parameters_call

SpecIntra == InitIntra /\ [][NextIntra]_vars

\* PriceAnalysis.calc_statistics(data, boundary)
InitStats ==
    /\ ticker = Str2("M", "U")
    /\ boundary \in 1..MaxBoundary
    /\ intra_time = PyBool(FALSE)
    /\ op = "calc_statistics"
    /\ pc = "calc_statistics"
    /\ \E n \in 0..MaxObs : diff \in [1..n -> (0 - MaxAbs)..MaxAbs]
    /\ Fresh

NextStats == calc_statistics_call

SpecStats == InitStats /\ [][NextStats]_vars

-----------------------------------------------------------------------------
(* Properties of create_price_arrays and adjust_trading_time (SpecArrays) *)

\* PriceData.create_price_arrays() has returned
ArraysComputed == op = "create_price_arrays" /\ pc = "done" /\ outcome = "returned"

\* the trading dates of the file that was read
FileDates == { quotes_file[i].Date : i \in 1..Len(quotes_file) }

\* the last row of the file that belongs to date d
LastRowOf(d) ==
    CHOOSE r \in 1..Len(quotes_file) :
        /\ quotes_file[r].Date = d
        /\ \A q \in 1..Len(quotes_file) : quotes_file[q].Date = d => q <= r

\* C1: after create_price_arrays with N >= 1 eligible days, close_price[i] =
\* prior_close_price[i+1] for every i < N - 1 (0-based), and the last entry of
\* close_price is the Close of the very last bar of the file.
C1_ClosePriceContinuity ==
    ArraysComputed =>
        LET N == Len(open_price)
        IN  /\ N >= 1
            /\ Len(prior_close_price) = N
            /\ Len(close_price) = N
            /\ \A i \in 1..(N - 1) : close_price[i] = prior_close_price[i + 1]
            /\ close_price[N] = quotes_file[Len(quotes_file)].Close

C1_Witness == ArraysComputed /\ Len(open_price) >= 2

\* C2: after create_price_arrays the three daily arrays have as many entries
\* as the file has distinct trading dates, minus one.
C2_LengthIsTradingDaysMinusOne ==
    ArraysComputed =>
        /\ Len(open_price) = Cardinality(FileDates) - 1
        /\ Len(prior_close_price) = Cardinality(FileDates) - 1
        /\ Len(close_price) = Cardinality(FileDates) - 1

\* C3: the prior_close_price entry paired with the open price of trading day
\* d is the Close of the last bar of the trading day immediately before d.
\* (Every bar has its own Open, so open_price[j] names its bar, and the
\* trading dates of a file are 1, 2, ... in order.)
C3_PriorCloseIsPreviousDaysLastClose ==
    ArraysComputed =>
        \A j \in 1..Len(open_price) :
            \A r \in 1..Len(quotes_file) :
                quotes_file[r].Open = open_price[j] =>
                    /\ quotes_file[r].Date > 1
                    /\ prior_close_price[j] =
                           quotes_file[LastRowOf(quotes_file[r].Date - 1)].Close

\* the trading dates that have a bar at the cutoff's adjusted time
CutoffDates ==
    { intra_quotes_df[r].Date :
        r \in { q \in 1..Len(intra_quotes_df) :
                  intra_quotes_df[q].AdjTime =
                      <<intra_time.val[1], intra_time.val[2], ":",
                        intra_time.val[3], intra_time.val[4], ":", "0", "0">> } }

\* the i-th of them in chronological order
CutoffDate(i) ==
    CHOOSE d \in CutoffDates : Cardinality({ e \in CutoffDates : e <= d }) = i

\* C4: with a cutoff string, intra_price and intra_open have the same length,
\* one entry for every trading day that has a bar at the cutoff, and entry i of
\* both comes from the i-th such day.
C4_IntraArraysAligned ==
    (ArraysComputed /\ intra_time.type = "str" /\ Len(intra_time.val) = 4) =>
        /\ Len(intra_price) = Len(intra_open)
        /\ Len(intra_price) = Cardinality(CutoffDates)
        /\ \A i \in 1..Len(intra_price) :
              \E r, q \in 1..Len(intra_quotes_df) :
                  /\ intra_quotes_df[r].Date = CutoffDate(i)
                  /\ intra_quotes_df[r].Close = intra_price[i]
                  /\ intra_quotes_df[q].Date = CutoffDate(i)
                  /\ intra_quotes_df[q].Open = intra_open[i]

\* a trading day that has a bar at original time 14:30:00
Flagged(d) ==
    \E r \in 1..Len(quotes_file) :
        /\ quotes_file[r].Date = d
        /\ quotes_file[r].Time = <<"1", "4", ":", "3", "0", ":", "0", "0">>

\* the time t with its hour one later, minutes and seconds as they are
OneHourLater(t) == TwoDigits(IntOf(<<t[1], t[2]>>) + 1) \o SubSeq(t, 3, Len(t))

ExpectedAdjTime(r) ==
    IF Flagged(quotes_file[r].Date)
    THEN OneHourLater(quotes_file[r].Time)
    ELSE quotes_file[r].Time

\* C5: the adjusted time of a bar of a flagged day is its time with the hour
\* one later and minutes and seconds unchanged, the adjusted time of a bar of
\* an unflagged day is its time, and Time and Date stay as read: in adj_time
\* after adjust_trading_time, in the AdjTime column after create_adjusted_quotes.
C5_AdjustedTime ==
    /\ pc = "create_adjusted_quotes" =>
          /\ Len(adj_time) = Len(quotes_file)
          /\ Len(raw_intra_quotes_df) = Len(quotes_file)
          /\ \A r \in 1..Len(quotes_file) :
                /\ adj_time[r] = ExpectedAdjTime(r)
                /\ raw_intra_quotes_df[r].Time = quotes_file[r].Time
                /\ raw_intra_quotes_df[r].Date = quotes_file[r].Date
    /\ pc \in {"create_price_arrays", "statistics", "done"} /\ quotes_file # <<>> =>
          /\ Len(intra_quotes_df) = Len(quotes_file)
          /\ Len(raw_intra_quotes_df) = Len(quotes_file)
          /\ \A r \in 1..Len(quotes_file) :
                /\ intra_quotes_df[r].AdjTime = ExpectedAdjTime(r)
                /\ raw_intra_quotes_df[r].AdjTime = ExpectedAdjTime(r)
                /\ intra_quotes_df[r].Time = quotes_file[r].Time
                /\ intra_quotes_df[r].Date = quotes_file[r].Date
                /\ raw_intra_quotes_df[r].Time = quotes_file[r].Time
                /\ raw_intra_quotes_df[r].Date = quotes_file[r].Date

C5_Witness ==
    /\ pc = "create_price_arrays"
    /\ \E r \in 1..Len(quotes_file) :
          /\ Flagged(quotes_file[r].Date)
          /\ quotes_file[r].Time = <<"1", "5", ":", "1", "5", ":", "0", "0">>
          /\ intra_quotes_df[r].AdjTime = <<"1", "6", ":", "1", "5", ":", "0", "0">>
    /\ \E r \in 1..Len(quotes_file) :
          /\ ~Flagged(quotes_file[r].Date)
          /\ intra_quotes_df[r].AdjTime = quotes_file[r].Time

-----------------------------------------------------------------------------
(* Properties of check_intra_parameters (SpecIntra) *)

\* a 4-digit string HHMM within 1530..2155 whose minutes are 00, 05, ..., 55
ValidCutoff(it) ==
    /\ it.type = "str"
    /\ Len(it.val) = 4
    /\ \A i \in 1..4 : it.val[i] \in Digits
    /\ LET hhmm == 1000 * DigitVal(it.val[1]) + 100 * DigitVal(it.val[2])
                   + 10 * DigitVal(it.val[3]) + DigitVal(it.val[4])
           mm == 10 * DigitVal(it.val[3]) + DigitVal(it.val[4])
       IN  /\ 1530 <= hhmm
           /\ hhmm <= 2155
           /\ mm \in { 5 * k : k \in 0..11 }

\* C6: check_intra_parameters returns for a string exactly when it is a valid
\* cutoff, and ends in SystemExit for every other string.
C6_AcceptsExactlyValidCutoffs ==
    (op = "check_intra_parameters" /\ pc = "done" /\ intra_time.type = "str") =>
        /\ outcome \in {"returned", "SystemExit"}
        /\ outcome = "returned" <=> ValidCutoff(intra_time)

-----------------------------------------------------------------------------
(* Properties of the analysis methods (Spec) *)

AnalysisOps == DailyOps \cup {"intraprice_open_analysis"}

TickerAllowed ==
    \E v \in valid_tickers :
        /\ Len(v) = Len(ticker)
        /\ \A i \in 1..Len(v) :
              \/ ticker[i] = v[i]
              \/ \E k \in 1..Len(LowerCase) : ticker[i] = LowerCase[k] /\ v[i] = UpperCase[k]

\* nothing was read from the quote file and no price array was computed
NothingLoaded ==
    /\ quotes_file = <<>>
    /\ raw_intra_quotes_df = <<>>
    /\ intra_quotes_df = <<>>
    /\ open_price = <<>>
    /\ prior_close_price = <<>>
    /\ close_price = <<>>
    /\ intra_price = <<>>
    /\ intra_open = <<>>

\* the call ended in the validation failure, before any loading, with no record
EndedInValidationFailure ==
    /\ pc = "done"
    /\ outcome = "SystemExit"
    /\ statistics_data = None
    /\ NothingLoaded

RefusedCutoff ==
    \/ intra_time = PyBool(TRUE)
    \/ /\ intra_time.type = "str"
       /\ \/ Len(intra_time.val) # 4
          \/ \E i \in 1..Len(intra_time.val) : intra_time.val[i] \notin Digits
          \/ LET hhmm == 1000 * DigitVal(intra_time.val[1])
                         + 100 * DigitVal(intra_time.val[2])
                         + 10 * DigitVal(intra_time.val[3])
                         + DigitVal(intra_time.val[4])
             IN  hhmm < 1530 \/ hhmm > 2155
          \/ intra_time.val[4] \notin {"0", "5"}

\* an intra_time that counts as given: True or a non-empty string
CutoffGiven ==
    \/ intra_time = PyBool(TRUE)
    \/ intra_time.type = "str" /\ intra_time.val # <<>>

C8_EmptyCutoffIsDefinedFailure ==
    (/\ op = "intraprice_open_analysis"
     /\ pc = "done"
     /\ Len(close_price) >= 1
     /\ intra_price = <<>>
     /\ intra_open = <<>>)
    => /\ outcome # "ZeroDivisionError"
       /\ outcome = "SystemExit"

\* C10: intraprice_open_analysis on an object whose intra_time is False
\* returns None without reading quotes or computing a price array, whatever
\* the ticker and the boundary, and does not exit.
C10_NoCutoffReturnsNone ==
    (op = "intraprice_open_analysis" /\ intra_time = PyBool(FALSE)) =>
        /\ pc = "done"
        /\ outcome = "returned"
        /\ statistics_data = None
        /\ NothingLoaded

C10_Witness ==
    /\ op = "intraprice_open_analysis"
    /\ intra_time = PyBool(FALSE)
    /\ ~TickerAllowed
    /\ boundary <= 0
    /\ outcome = "returned"

-----------------------------------------------------------------------------
(* Properties of calc_statistics (SpecStats) *)

-----------------------------------------------------------------------------
(* Properties of the statistics stage of the analysis methods (Spec) *)

\* C11: an analysis whose difference series has fewer than 2 observations
\* fails; it does not return a statistics record (whose standard deviation
\* would be undefined).
C11_FewerThanTwoObservationsFails ==
    (op \in AnalysisOps /\ pc = "done" /\ Len(diff) < 2) =>
        /\ statistics_data = None
        /\ (outcome = "returned" => Len(close_price) = 0)

=============================================================================
